---- MODULE Spec2Model ----
(***************************************************************************)
(* A model of infoGANs/infogan.py: the InfoGAN object after construction, *)
(* the training loop of train(), the sample grid of sample_images(), the  *)
(* persistence of save_model(), and the pure function mutual_info_loss(). *)
(*                                                                         *)
(* Tensors whose contents no statement of the program inspects (images,    *)
(* feature maps) are records [shape, px]: the shape the layers compute and *)
(* one representative entry in thousandths.  Small arrays the program      *)
(* builds itself (targets, labels, latent codes) are explicit matrices:    *)
(* sequences of rows.                                                      *)
(***************************************************************************)
EXTENDS Integers, Sequences, FiniteSets, TLC

VARIABLES
    pc,              \* position of the process
    epochs,          \* train() parameter
    batch_size,      \* train() parameter
    sample_interval, \* train() parameter
    epoch,           \* loop variable of train()
    it,              \* how many values the loop has taken from range(epochs)
    valid,           \* np.ones((batch_size, channels))
    fake,            \* np.zeros((batch_size, channels))
    imgs,            \* shape of X_train[idx]
    sampled_labels,  \* one-hot rows of the iteration
    gen_input,       \* concatenated latent rows of the iteration
    gen_imgs,        \* generator.predict(gen_input)
    loss,            \* value returned by the latest train_on_batch
    updated_by,      \* network -> compiled models whose step changed its weights
    calls,           \* the steps of the current iteration, in order
    last_call,       \* model and arguments of the latest train_on_batch
    predict_in,      \* batches handed to generator.predict, latest first use
    predict_out,     \* what generator.predict returned for them
    grids,           \* epochs whose grid savefig has written, in order
    files,           \* paths written so far
    raised,          \* the uncaught exception, if any: <<step, epoch>>
    mi_pc,           \* position of the mutual_info_loss evaluation
    mi_n,            \* rows of its arguments c and c_given_x
    mi_k,            \* rows summed so far
    mi_ce,           \* running mean of -sum(log(c_given_x + eps) * c, axis=1)
    mi_h,            \* running mean of -sum(log(c + eps) * c, axis=1)
    mi_degenerate,   \* every row so far: c one-hot and c_given_x = c
    mi_loss          \* the result, in units of 1e-8

trainVars == <<pc, epochs, batch_size, sample_interval, epoch, it, valid, fake,
               imgs, sampled_labels, gen_input, gen_imgs, loss, updated_by,
               calls, last_call, predict_in, predict_out, grids, files, raised>>

lossVars == <<mi_pc, mi_n, mi_k, mi_ce, mi_h, mi_degenerate, mi_loss>>

vars == <<trainVars, lossVars>>

---------------------------------------------------------------------------
\* Bounds of the model.

MaxEpochs == 3

\* the batch sizes train() is called with
BatchSizes == {1, 2}

MaxInterval == 2

\* mutual_info_loss is evaluated on batches of 1..MaxLossBatch rows of
\* LossClasses probabilities, each 0 or 2^-j with j in Exps
MaxLossBatch == 2

LossClasses == 3

Exps == {0, 1, 2}

\* one sampled value stands for the entries of a noise matrix
NoiseVals == {-1, 1}

\* pre-activations of the generator's last convolution
PreActs == {-12, 2}

---------------------------------------------------------------------------
\* InfoGAN.__init__: the hyper-parameters.

img_rows == 32

img_cols == 32

channels == 3

num_classes == 10

latent_dim == 134

noise_variable == 124

img_shape == <<img_rows, img_cols, channels>>

---------------------------------------------------------------------------
\* Layers, as far as shapes go.  A shape is <<batch, ...>>.

CeilDiv(a, b) == (a + b - 1) \div b

Dense(units, s) == <<s[1], units>>

Reshape(target, s) == <<s[1]>> \o target

UpSampling2D(s) == <<s[1], 2 * s[2], 2 * s[3], s[4]>>

\* padding="same": the spatial size is ceil(size / strides)
Conv2D(filters, strides, s) ==
    <<s[1], CeilDiv(s[2], strides), CeilDiv(s[3], strides), filters>>

\* padding=((0,1),(0,1))
ZeroPadding2D(s) == <<s[1], s[2] + 1, s[3] + 1, s[4]>>

Flatten(s) == <<s[1], s[2] * s[3] * s[4]>>

ApplyLayer(layer, s) ==
    CASE layer.kind = "Dense" -> Dense(layer.arg, s)
      [] layer.kind = "Reshape" -> Reshape(layer.arg, s)
      [] layer.kind = "UpSampling2D" -> UpSampling2D(s)
      [] layer.kind = "Conv2D" -> Conv2D(layer.arg, layer.strides, s)
      [] layer.kind = "ZeroPadding2D" -> ZeroPadding2D(s)
      [] layer.kind = "Flatten" -> Flatten(s)
      [] OTHER -> s   \* BatchNormalization, Activation, LeakyReLU, Dropout

L(kind, arg, strides) == [kind |-> kind, arg |-> arg, strides |-> strides]

RECURSIVE ShapeTrace(_, _)
\* the shapes after each layer of the stack, the input shape first
ShapeTrace(layers, s) ==
    IF layers = <<>> THEN <<s>>
    ELSE <<s>> \o ShapeTrace(Tail(layers), ApplyLayer(Head(layers), s))

OutputShape(layers, s) ==
    LET t == ShapeTrace(layers, s) IN t[Len(t)]

RECURSIVE UpsampleStages(_)
UpsampleStages(layer_filters) ==
    IF layer_filters = <<>> THEN <<>>
    ELSE << L("UpSampling2D", 0, 1),
            L("Conv2D", Head(layer_filters), 1),
            L("Activation", "relu", 1),
            L("BatchNormalization", 0, 1) >>
         \o UpsampleStages(Tail(layer_filters))

generator_model(layer_filters) ==
    << L("Dense", 1024, 1),
       L("BatchNormalization", 0, 1),
       L("Dense", 448 * 4 * 4, 1),
       L("Reshape", <<4, 4, 448>>, 1),
       L("BatchNormalization", 0, 1) >>
    \o UpsampleStages(layer_filters)
    \o << L("Conv2D", channels, 1),
          L("Activation", "tanh", 1) >>

RECURSIVE MiddleStages(_)
MiddleStages(layer_filters) ==
    IF layer_filters = <<>> THEN <<>>
    ELSE << L("Conv2D", Head(layer_filters), 2),
            L("ZeroPadding2D", 0, 1),
            L("LeakyReLU", 0, 1),
            L("Dropout", 0, 1),
            L("BatchNormalization", 0, 1) >>
         \o MiddleStages(Tail(layer_filters))

discriminator_recognition_net(layer_filters) ==
    << L("Conv2D", layer_filters[1], 2),
       L("LeakyReLU", 0, 1),
       L("Dropout", 0, 1) >>
    \o MiddleStages(SubSeq(layer_filters, 2, Len(layer_filters) - 1))
    \o << L("Conv2D", layer_filters[Len(layer_filters)], 2),
          L("LeakyReLU", 0, 1),
          L("Dropout", 0, 1),
          L("BatchNormalization", 0, 1),
          L("Flatten", 0, 1) >>

discriminator_model ==
    discriminator_recognition_net(<<64, 128, 256>>)
    \o << L("Dense", channels, 1) >>

recognition_model ==
    discriminator_recognition_net(<<64, 128, 256>>)
    \o << L("Dense", 128, 1), L("Dense", num_classes, 1) >>

generator == generator_model(<<256, 128, 64>>)

---------------------------------------------------------------------------
\* Values.  A representative tensor entry is an integer number of
\* thousandths; a pre-activation is an integer.

Abs(x) == IF x < 0 THEN -x ELSE x

Sign(x) == IF x < 0 THEN -1 ELSE IF x > 0 THEN 1 ELSE 0

TanhLinear(x) == 1000 * x

\* tanh, rounded to thousandths (in float32 it is exactly 1.0 from 10 on)
Tanh(x) ==
    Sign(x) * (CASE Abs(x) = 0 -> 0
                 [] Abs(x) = 1 -> 762
                 [] Abs(x) = 2 -> 964
                 [] Abs(x) = 3 -> 995
                 [] Abs(x) = 4 -> 999
                 [] OTHER -> 1000)

Activation(name, x) ==
    CASE name = "tanh" -> Tanh(x)
      [] name = "relu" -> IF x > 0 THEN 1000 * x ELSE 0

\* model.predict(x) for a stack of layers whose last layer is an Activation
\* fed the pre-activation pre
Predict(layers, xshape, pre) ==
    [shape |-> OutputShape(layers, xshape),
     px |-> Activation(layers[Len(layers)].arg, pre)]

NoTensor == [shape |-> <<>>, px |-> 0]

---------------------------------------------------------------------------
\* numpy and keras.utils helpers on explicit matrices (sequences of rows).

MatShape(m) == IF m = <<>> THEN <<0>> ELSE <<Len(m), Len(m[1])>>

np_ones_column(rows, cols) == [r \in 1..rows |-> [k \in 1..1 |-> 1]]

np_ones(rows, cols) == [r \in 1..rows |-> [k \in 1..cols |-> 1]]

np_zeros_as_ones(rows, cols) == [r \in 1..rows |-> [k \in 1..cols |-> 1]]

np_zeros(rows, cols) == [r \in 1..rows |-> [k \in 1..cols |-> 0]]

\* np.full(fill_value=v, shape=(rows, 1)), as the column of its entries
np_full(v, rows) == [r \in 1..rows |-> v]

to_categorical_shifted(y, n) ==
    [r \in 1..Len(y) |-> [k \in 1..n |-> IF k = y[r] THEN 1 ELSE 0]]

\* to_categorical(y, num_classes=n): row r has its 1 at 0-based index y[r]
to_categorical(y, n) ==
    [r \in 1..Len(y) |-> [k \in 1..n |-> IF k - 1 = y[r] THEN 1 ELSE 0]]

\* np.concatenate((a, b), axis=1), for a and b of equal row counts
concatenate(a, b) == [r \in 1..Len(a) |-> a[r] \o b[r]]

\* np.random.normal(0, 1, (rows, cols)) with every entry the sample z
normal(z, rows, cols) == [r \in 1..rows |-> [k \in 1..cols |-> z]]

range_inclusive(n) == [i \in 1..(n + 1) |-> i - 1]

\* range(n), as the sequence of its values
range(n) == [i \in 1..n |-> i - 1]

---------------------------------------------------------------------------
\* InfoGAN.__init__: which networks a compiled model's step updates.  A
\* compiled model updates every weight of its layers that is trainable when
\* compile() runs.

\* self.discriminator.trainable = True; recognition and generator keep the
\* default
trainable ==
    [generator |-> TRUE, discriminator |-> TRUE, recognition |-> TRUE]

Networks == {"generator", "discriminator", "recognition"}

\* the networks each compiled model is made of
Members(model) ==
    CASE model = "discriminator" -> {"discriminator"}
      [] model = "recognition" -> {"recognition"}
      [] model = "combined" -> {"generator", "discriminator", "recognition"}

Updates(model) == {n \in Members(model) : trainable[n]}

\* model.train_on_batch: every network the model updates records the model
AfterStep(model) ==
    [n \in Networks |->
        IF n \in Updates(model) THEN updated_by[n] \cup {model}
        ELSE updated_by[n]]

\* the losses train_on_batch can return: a finite number or NaN
LossValues == {"finite", "nan"}

---------------------------------------------------------------------------
\* sample_generator_input(batch_size, noise_variable=124), for the noise
\* sample z and the drawn classes y

sample_generator_input(z, y, rows) ==
    <<normal(z, rows, noise_variable), to_categorical(y, num_classes)>>

---------------------------------------------------------------------------
\* The process.  No statement of the program catches an exception: one
\* raised by any call leaves train() and ends the process.

OnRaiseRetry(step) == step

OnRaise(step) == "crashed"

Call(model, x, y) == [model |-> model, x |-> x, y |-> y]

NoCall == Call("none", <<>>, <<>>)

ShouldSampleOffByOne(e, interval) == (e + 1) % interval = 0

\* if epoch % sample_interval == 0
ShouldSample(e, interval) == e % interval = 0

DigitChars == <<"0", "1", "2", "3", "4", "5", "6", "7", "8", "9">>

RECURSIVE FormatD(_)
\* "%d" % e, for e >= 0: the decimal digits of e
FormatD(e) ==
    IF e < 10 THEN <<DigitChars[e + 1]>>
    ELSE FormatD(e \div 10) \o <<DigitChars[(e % 10) + 1]>>

\* "infoGANs/images/%d.png" % epoch
GridPath(e) == <<"infoGANs", "images">> \o FormatD(e) \o <<".png">>

\* "infoGANs/saved_model/%s.json" % model_name
ModelPath(model_name) == <<"infoGANs", "saved_model", model_name, ".json">>

\* "infoGANs/saved_model/%s_weights.hdf5" % model_name
WeightsPath(model_name) ==
    <<"infoGANs", "saved_model", model_name, "_weights.hdf5">>

TrainIdle ==
    /\ epoch = -1
    /\ it = 0
    /\ valid = <<>>
    /\ fake = <<>>
    /\ imgs = <<>>
    /\ sampled_labels = <<>>
    /\ gen_input = <<>>
    /\ gen_imgs = NoTensor
    /\ loss = "none"
    /\ updated_by = [n \in Networks |-> {}]
    /\ calls = <<>>
    /\ last_call = NoCall
    /\ predict_in = <<>>
    /\ predict_out = <<>>
    /\ grids = <<>>
    /\ files = {}
    /\ raised = <<>>

LossIdle ==
    /\ mi_pc = "idle"
    /\ mi_n = 0
    /\ mi_k = 0
    /\ mi_ce = <<0, 0>>
    /\ mi_h = <<0, 0>>
    /\ mi_degenerate = TRUE
    /\ mi_loss = 0

\* the object is constructed and train(epochs, batch_size, sample_interval)
\* is entered
Init ==
    /\ pc = "train"
    /\ epochs \in 0..MaxEpochs
    /\ batch_size \in BatchSizes
    /\ sample_interval \in 1..MaxInterval
    /\ TrainIdle
    /\ LossIdle

\* train(), up to the loop: the data is loaded and the targets are built
LoadData ==
    /\ pc = "train"
    /\ valid' = np_ones(batch_size, channels)
    /\ fake' = np_zeros(batch_size, channels)
    /\ pc' = "for"
    /\ UNCHANGED <<epochs, batch_size, sample_interval, epoch, it, imgs,
                   sampled_labels, gen_input, gen_imgs, loss, updated_by,
                   calls, last_call, predict_in, predict_out, grids, files,
                   raised>>
    /\ UNCHANGED lossVars

\* for epoch in range(epochs)
ForEpoch ==
    /\ pc = "for"
    /\ IF it < Len(range(epochs))
       THEN /\ epoch' = range(epochs)[it + 1]
            /\ it' = it + 1
            /\ pc' = "sample_real"
       ELSE /\ pc' = "returned"
            /\ UNCHANGED <<epoch, it>>
    /\ calls' = <<>>
    /\ predict_in' = <<>>
    /\ predict_out' = <<>>
    /\ UNCHANGED <<epochs, batch_size, sample_interval, valid, fake, imgs,
                   sampled_labels, gen_input, gen_imgs, loss, updated_by,
                   last_call, grids, files, raised>>
    /\ UNCHANGED lossVars

\* idx = np.random.randint(...); imgs = X_train[idx]
SampleReal ==
    /\ pc = "sample_real"
    /\ imgs' = <<batch_size>> \o img_shape
    /\ calls' = Append(calls, "sample_real")
    /\ pc' = "sample_gen_input"
    /\ UNCHANGED <<epochs, batch_size, sample_interval, epoch, it, valid, fake,
                   sampled_labels, gen_input, gen_imgs, loss, updated_by,
                   last_call, predict_in, predict_out, grids, files, raised>>
    /\ UNCHANGED lossVars

\* sampled_noise, sampled_labels = self.sample_generator_input(batch_size)
\* gen_input = np.concatenate((sampled_noise, sampled_labels), axis=1)
SampleGenInput ==
    /\ pc = "sample_gen_input"
    /\ \E z \in NoiseVals, y \in [1..batch_size -> 0..(num_classes - 1)] :
         LET s == sample_generator_input(z, y, batch_size) IN
         /\ sampled_labels' = s[2]
         /\ gen_input' = concatenate(s[1], s[2])
    /\ calls' = Append(calls, "sample_gen_input")
    /\ pc' = "generate"
    /\ UNCHANGED <<epochs, batch_size, sample_interval, epoch, it, valid, fake,
                   imgs, gen_imgs, loss, updated_by, last_call, predict_in,
                   predict_out, grids, files, raised>>
    /\ UNCHANGED lossVars

\* gen_imgs = self.generator.predict(gen_input)
Generate ==
    /\ pc = "generate"
    /\ MatShape(gen_input)[2] = latent_dim
    /\ \E pre \in PreActs :
         /\ gen_imgs' = Predict(generator, MatShape(gen_input), pre)
         /\ predict_out' = <<gen_imgs'>>
    /\ predict_in' = <<gen_input>>
    /\ calls' = Append(calls, "generate")
    /\ pc' = "d_real"
    /\ UNCHANGED <<epochs, batch_size, sample_interval, epoch, it, valid, fake,
                   imgs, sampled_labels, gen_input, loss, updated_by,
                   last_call, grids, files, raised>>
    /\ UNCHANGED lossVars

\* model.train_on_batch(x, y) accepts y only in the shape of model(x)
Fits(layers, xshape, y) == OutputShape(layers, xshape) = MatShape(y)

\* d_loss_real = self.discriminator.train_on_batch(imgs, valid)
DiscReal ==
    /\ pc = "d_real"
    /\ Tail(imgs) = img_shape
    /\ Fits(discriminator_model, imgs, valid)
    /\ loss' \in LossValues
    /\ updated_by' = AfterStep("discriminator")
    /\ last_call' = Call("discriminator", imgs, valid)
    /\ calls' = Append(calls, "d_real")
    /\ pc' = "d_fake"
    /\ UNCHANGED <<epochs, batch_size, sample_interval, epoch, it, valid, fake,
                   imgs, sampled_labels, gen_input, gen_imgs, predict_in,
                   predict_out, grids, files, raised>>
    /\ UNCHANGED lossVars

\* d_loss_fake = self.discriminator.train_on_batch(gen_imgs, fake)
DiscFake ==
    /\ pc = "d_fake"
    /\ Tail(gen_imgs.shape) = img_shape
    /\ Fits(discriminator_model, gen_imgs.shape, fake)
    /\ loss' \in LossValues
    /\ updated_by' = AfterStep("discriminator")
    /\ last_call' = Call("discriminator", gen_imgs, fake)
    /\ calls' = Append(calls, "d_fake")
    /\ pc' = "combined"
    /\ UNCHANGED <<epochs, batch_size, sample_interval, epoch, it, valid, fake,
                   imgs, sampled_labels, gen_input, gen_imgs, predict_in,
                   predict_out, grids, files, raised>>
    /\ UNCHANGED lossVars

\* g_loss = self.combined.train_on_batch(gen_input, [valid, sampled_labels])
Combined ==
    /\ pc = "combined"
    /\ MatShape(gen_input)[2] = latent_dim
    /\ LET img == OutputShape(generator, MatShape(gen_input)) IN
         /\ Tail(img) = img_shape
         /\ Fits(discriminator_model, img, valid)
         /\ Fits(recognition_model, img, sampled_labels)
    /\ loss' \in LossValues
    /\ updated_by' = AfterStep("combined")
    /\ last_call' = Call("combined", gen_input, <<valid, sampled_labels>>)
    /\ calls' = Append(calls, "combined")
    /\ pc' = "print"
    /\ UNCHANGED <<epochs, batch_size, sample_interval, epoch, it, valid, fake,
                   imgs, sampled_labels, gen_input, gen_imgs, predict_in,
                   predict_out, grids, files, raised>>
    /\ UNCHANGED lossVars

\* print(...); if epoch % sample_interval == 0: ...
\* The arrays of the iteration are not read after this statement (each is
\* rebound before its next use), and are dropped here.
PrintProgress ==
    /\ pc = "print"
    /\ pc' = IF ShouldSample(epoch, sample_interval)
             THEN "sample_images" ELSE "for"
    /\ imgs' = <<>>
    /\ sampled_labels' = <<>>
    /\ gen_input' = <<>>
    /\ gen_imgs' = NoTensor
    /\ loss' = "none"
    /\ last_call' = NoCall
    /\ predict_in' = <<>>
    /\ predict_out' = <<>>
    /\ UNCHANGED <<epochs, batch_size, sample_interval, epoch, it, valid, fake,
                   updated_by, calls, grids, files, raised>>
    /\ UNCHANGED lossVars

\* r, c = 10, 10
GridShape == <<10, 10>>

\* sample_images(epoch): for each column i in range(c), c noise rows joined
\* to r rows of the one-hot code of i are fed to the generator; then savefig
SampleImages ==
    /\ pc = "sample_images"
    /\ LET r == GridShape[1]
           c == GridShape[2]
       IN
       /\ r = c                    \* else np.concatenate raises
       /\ \E z \in NoiseVals, pre \in PreActs :
            LET column(i) ==
                    concatenate(
                        sample_generator_input(z, np_full(0, c), c)[1],
                        to_categorical(np_full(i, r), num_classes))
                fed == [k \in 1..c |-> column(range(c)[k])]
            IN
            /\ predict_in' = fed
            /\ predict_out' =
                   [k \in 1..c |-> Predict(generator, MatShape(fed[k]), pre)]
    /\ grids' = Append(grids, epoch)
    /\ files' = files \cup {GridPath(epoch)}
    /\ pc' = "for"
    /\ UNCHANGED <<epochs, batch_size, sample_interval, epoch, it, valid, fake,
                   imgs, sampled_labels, gen_input, gen_imgs, loss,
                   updated_by, calls, last_call, raised>>
    /\ UNCHANGED lossVars

\* the steps that call into the framework or the file system
RaisingSteps ==
    {"train", "generate", "d_real", "d_fake", "combined", "sample_images"}

\* such a call raises
Raise ==
    /\ pc \in RaisingSteps
    /\ raised = <<>>
    /\ raised' = <<pc, epoch>>
    /\ pc' = OnRaise(pc)
    /\ UNCHANGED <<epochs, batch_size, sample_interval, epoch, it, valid, fake,
                   imgs, sampled_labels, gen_input, gen_imgs, loss,
                   updated_by, calls, last_call, predict_in, predict_out,
                   grids, files>>
    /\ UNCHANGED lossVars

\* __main__: infogan.train(...) is the last statement
MainExit ==
    /\ pc = "returned"
    /\ pc' = "exit"
    /\ UNCHANGED <<epochs, batch_size, sample_interval, epoch, it, valid, fake,
                   imgs, sampled_labels, gen_input, gen_imgs, loss,
                   updated_by, calls, last_call, predict_in, predict_out,
                   grids, files, raised>>
    /\ UNCHANGED lossVars

\* save_model(), for a caller that invokes it after train()
SaveModel ==
    /\ pc = "returned"
    /\ files' = files \cup {ModelPath("generator"), WeightsPath("generator"),
                           ModelPath("discriminator"),
                           WeightsPath("discriminator")}
    /\ pc' = "saved"
    /\ UNCHANGED <<epochs, batch_size, sample_interval, epoch, it, valid, fake,
                   imgs, sampled_labels, gen_input, gen_imgs, loss,
                   updated_by, calls, last_call, predict_in, predict_out,
                   grids, raised>>
    /\ UNCHANGED lossVars

Next ==
    \/ LoadData
    \/ ForEpoch
    \/ SampleReal
    \/ SampleGenInput
    \/ Generate
    \/ DiscReal
    \/ DiscFake
    \/ Combined
    \/ PrintProgress
    \/ SampleImages
    \/ Raise
    \/ MainExit
    \/ SaveModel

Spec == Init /\ [][Next]_vars

---------------------------------------------------------------------------
\* mutual_info_loss(c, c_given_x), in float32 (the backend's floatx).
\*
\* A probability is Zero or the exponent j of 2^-j.  Logarithms and the loss
\* are integers in units of 1e-8, the size of eps.

Zero == -1

RECURSIVE Pow2(_)
Pow2(n) == IF n = 0 THEN 1 ELSE 2 * Pow2(n - 1)

MaxExp == CHOOSE e \in Exps : \A f \in Exps : f <= e

Probs == {Zero} \cup Exps

\* the weight of p in units of 2^-MaxExp
Weight(p) == IF p = Zero THEN 0 ELSE Pow2(MaxExp - p)

RECURSIVE SumWeights(_)
SumWeights(row) ==
    IF row = <<>> THEN 0 ELSE Weight(Head(row)) + SumWeights(Tail(row))

\* the rows that are probability distributions: entries >= 0 that sum to 1
Distributions ==
    {row \in [1..LossClasses -> Probs] : SumWeights(row) = Pow2(MaxExp)}

OneHot(row) ==
    /\ \A i \in 1..Len(row) : row[i] \in {Zero, 0}
    /\ Cardinality({i \in 1..Len(row) : row[i] = 0}) = 1

\* ln 2 and ln 1e-8 in units of 1e-8
Ln2 == 69314718

LnEps == -1842068074

\* 2^-23, the spacing of float32 in [1, 2), in units of 1e-8
Ulp1 == 12

\* K.log(p + eps) for the real numbers p and eps
LogPlusEpsExact(p) ==
    IF p = Zero THEN LnEps ELSE -(p * Ln2) + Pow2(p)

\* K.log(p + eps) in float32.  The sum p + eps is rounded to the nearest
\* float32: p = 2^-j has neighbours 2^(-j-23) apart, so the sum is p plus m
\* of them, m = round(1e-8 * 2^(j+23)), and its logarithm is that of p plus
\* m * 2^-23.  From p = 1/4 on, m = 0: eps is absorbed.
LogPlusEps(p) ==
    IF p = Zero THEN LnEps
    ELSE LET m == (Pow2(p + 23) + 50000000) \div 100000000
         IN -(p * Ln2) + m * Ulp1

\* x * c for the probability c
Times(x, c) == IF c = Zero THEN 0 ELSE x \div Pow2(c)

RECURSIVE SumLogTimes(_, _)
\* K.sum(K.log(x + eps) * c, axis=1), for one row
SumLogTimes(x, c) ==
    IF c = <<>> THEN 0
    ELSE Times(LogPlusEps(Head(x)), Head(c)) + SumLogTimes(Tail(x), Tail(c))

\* K.mean over n rows, one row at a time: the mean so far is kept as
\* <<quotient, remainder>> of the rows' values by n
MeanAdd(m, v, n) == <<m[1] + (v \div n), m[2] + (v % n)>>

MeanValue(m, n) == m[1] + (m[2] \div n)

LossInit ==
    /\ pc = "off"
    /\ epochs = 0
    /\ batch_size = 1
    /\ sample_interval = 1
    /\ TrainIdle
    /\ mi_pc = "rows"
    /\ mi_n \in 1..MaxLossBatch
    /\ mi_k = 0
    /\ mi_ce = <<0, 0>>
    /\ mi_h = <<0, 0>>
    /\ mi_degenerate = TRUE
    /\ mi_loss = 0

\* one more row of the two sums over axis 1 enters the two means
SumRow ==
    /\ mi_pc = "rows"
    /\ mi_k < mi_n
    /\ \E c \in Distributions, c_given_x \in Distributions :
         /\ mi_ce' = MeanAdd(mi_ce, -SumLogTimes(c_given_x, c), mi_n)
         /\ mi_h' = MeanAdd(mi_h, -SumLogTimes(c, c), mi_n)
         /\ mi_degenerate' = (mi_degenerate /\ OneHot(c) /\ c_given_x = c)
    /\ mi_k' = mi_k + 1
    /\ UNCHANGED <<mi_pc, mi_n, mi_loss>>
    /\ UNCHANGED trainVars

\* return conditional_entropy + entropy
Return ==
    /\ mi_pc = "rows"
    /\ mi_k = mi_n
    /\ mi_loss' = MeanValue(mi_ce, mi_n) + MeanValue(mi_h, mi_n)
    /\ mi_pc' = "done"
    /\ UNCHANGED <<mi_n, mi_k, mi_ce, mi_h, mi_degenerate>>
    /\ UNCHANGED trainVars

LossNext ==
    \/ SumRow
    \/ Return

SpecLoss == LossInit /\ [][LossNext]_vars

---------------------------------------------------------------------------
\* Properties.

ExpectedOrder ==
    <<"sample_real", "sample_gen_input", "generate", "d_real", "d_fake",
      "combined">>

IsPrefix(a, b) == Len(a) <= Len(b) /\ a = SubSeq(b, 1, Len(a))

AllEntries(m, rows, cols, v) ==
    /\ Len(m) = rows
    /\ \A r \in 1..rows :
         Len(m[r]) = cols /\ \A k \in 1..cols : m[r][k] = v

IsOneHotRow(row) ==
    /\ \A k \in 1..Len(row) : row[k] \in {0, 1}
    /\ Cardinality({k \in 1..Len(row) : row[k] = 1}) = 1

\* the position of the process, as the number of finished steps of the
\* iteration
StepsDone ==
    CASE pc = "sample_real" -> 0
      [] pc = "sample_gen_input" -> 1
      [] pc = "generate" -> 2
      [] pc = "d_real" -> 3
      [] pc = "d_fake" -> 4
      [] pc = "combined" -> 5
      [] pc \in {"print", "sample_images", "for"} /\ it > 0 -> 6
      [] OTHER -> Len(calls)

C1_Arguments ==
    /\ pc = "d_real" =>
          /\ predict_in = <<gen_input>>
          /\ predict_out = <<gen_imgs>>
          /\ Len(gen_input) = Len(sampled_labels)
          /\ \A r \in 1..Len(gen_input) :
                SubSeq(gen_input[r], 125, 134) = sampled_labels[r]
    /\ pc = "d_fake" =>
          /\ last_call.model = "discriminator"
          /\ last_call.x = imgs
          /\ AllEntries(last_call.y, batch_size, 3, 1)
    /\ pc = "combined" =>
          /\ last_call.model = "discriminator"
          /\ last_call.x = gen_imgs
          /\ predict_out = <<gen_imgs>>
          /\ AllEntries(last_call.y, batch_size, 3, 0)
    /\ pc = "print" =>
          /\ last_call.model = "combined"
          /\ predict_in = <<last_call.x>>
          /\ AllEntries(last_call.y[1], batch_size, 3, 1)
          /\ last_call.y[2] = sampled_labels
          /\ \A r \in 1..Len(sampled_labels) : IsOneHotRow(sampled_labels[r])

\* C1: in every iteration of train() the steps run once each in the order
\* sample real batch, sample (noise, one-hot labels), generate from the
\* concatenated input, discriminator on the real batch against all-ones,
\* discriminator on the fake batch against all-zeros, combined model on the
\* same generator input against (all-ones, sampled labels); and the next
\* iteration begins only after the combined update has finished.
C1_IterationOrder ==
    /\ [](/\ IsPrefix(calls, ExpectedOrder)
          /\ Len(calls) = StepsDone
          /\ C1_Arguments)
    /\ [][epoch' # epoch => (it = 0 \/ calls = ExpectedOrder)]_vars

C1_Witness ==
    /\ pc = "print"
    /\ it = 2
    /\ batch_size = 2
    /\ calls = ExpectedOrder

\* C2: the combined model's update leaves the weights of the discriminator
\* and of the recognition network as they were: only the discriminator's own
\* update changes the discriminator.
C2_CombinedLeavesDiscriminatorFixed ==
    /\ "combined" \notin updated_by["discriminator"]
    /\ "combined" \notin updated_by["recognition"]

\* C3: when the run started by the entry point has finished all its
\* iterations and ended, the architecture and the weights of the final
\* model are on disk under saved_model/.
C3_EntryPointSavesModel ==
    pc = "exit" /\ raised = <<>> /\ it = epochs /\ epochs >= 1 =>
        \E name \in {"generator", "discriminator"} :
            {ModelPath(name), WeightsPath(name)} \subseteq files

LatentRowOK(row) ==
    /\ Len(row) = 134
    /\ \A k \in 1..124 : row[k] \in NoiseVals
    /\ IsOneHotRow(SubSeq(row, 125, 134))

\* C4: every latent row handed to the generator, by train() and by
\* sample_images(), has 134 entries: 124 of noise, then a one-hot code of
\* length 10.
C4_LatentCodes ==
    /\ \A k \in 1..Len(predict_in) :
          /\ Len(predict_in[k]) >= 1
          /\ \A r \in 1..Len(predict_in[k]) : LatentRowOK(predict_in[k][r])
    /\ last_call.model = "combined" =>
          /\ Len(last_call.x) >= 1
          /\ \A r \in 1..Len(last_call.x) : LatentRowOK(last_call.x[r])

C4_Witness ==
    /\ Len(predict_in) = 10
    /\ predict_in[10][10][134] = 1
    /\ it = 2

C6_ExactlyEpochsIterations ==
    /\ [](/\ epoch = it - 1
          /\ it <= epochs
          /\ pc \in {"returned", "exit", "saved"} => it = epochs
          /\ pc \in {"returned", "exit", "saved"} /\ epochs = 0 =>
                \A n \in Networks : updated_by[n] = {})
    /\ [][it' = it \/ (it' = it + 1 /\ pc = "for")]_vars
    /\ [][pc' = "returned" => pc = "for" /\ it = epochs]_vars

C6_Witness ==
    /\ pc = "returned"
    /\ epochs = 3
    /\ it = 3

\* C7, as stated: once a step has failed, by raising or by returning a NaN
\* loss, nothing more runs.
C7_AnyFailureEndsProcess ==
    [][(raised # <<>> \/ loss = "nan") => UNCHANGED vars]_vars

\* C7, amended: a step that raises ends the process at that step, which is
\* not recorded as done and not retried, and nothing runs after it; a step
\* that returns a NaN loss raises nothing, and the next step runs.
C7_RaiseEndsProcess ==
    /\ [](raised # <<>> =>
             /\ pc = "crashed"
             /\ raised[1] \notin {calls[k] : k \in 1..Len(calls)}
             /\ raised[1] = "sample_images" =>
                    GridPath(raised[2]) \notin files)
    /\ [][raised # <<>> => UNCHANGED vars]_vars
    /\ [](loss = "nan" /\ raised = <<>> =>
             pc \in {"d_fake", "combined", "print"})

C7_Witness ==
    /\ raised = <<"sample_images", 2>>
    /\ pc = "crashed"

\* C8: the generator maps (B, 134) to (B, 32, 32, 3): 4x4x448 after the
\* reshape, doubled by each of the three upsample stages with 256, 128 and
\* 64 channels, then 3 channels; every output value is in [-1, 1].
C8_GeneratorOutput ==
    \A k \in 1..Len(predict_out) :
        LET B == Len(predict_in[k])
            t == ShapeTrace(generator, <<B, 134>>)
        IN
        /\ Len(predict_in) = Len(predict_out)
        /\ B >= 1
        /\ predict_out[k].shape = <<B, 32, 32, 3>>
        /\ predict_out[k].px >= -1000
        /\ predict_out[k].px <= 1000
        /\ Len(t) = 20
        /\ t[5] = <<B, 4, 4, 448>>
        /\ t[7] = <<B, 8, 8, 448>> /\ t[8] = <<B, 8, 8, 256>>
        /\ t[11] = <<B, 16, 16, 256>> /\ t[12] = <<B, 16, 16, 128>>
        /\ t[15] = <<B, 32, 32, 128>> /\ t[16] = <<B, 32, 32, 64>>
        /\ t[19] = <<B, 32, 32, 3>>
        /\ t[20] = predict_out[k].shape

C8_Witness ==
    /\ Len(predict_out) = 1
    /\ Len(predict_in[1]) = 2
    /\ predict_out[1].px = -1000

\* C9: the mutual information loss is never negative on probability
\* distributions, and is 0 only if every row of c is one-hot and equal to
\* the row of c_given_x.
C9_LossNonNegative ==
    mi_pc = "done" =>
        /\ mi_loss >= 0
        /\ mi_loss = 0 => mi_degenerate

C9_Witness ==
    /\ mi_pc = "done"
    /\ mi_n = 2
    /\ mi_degenerate
    /\ mi_loss = 0

====
